---- MODULE Spec2Model ----
(***************************************************************************)
(* A model of the crawl / partition / retry / ingest engine of fmp-storage *)
(*                                                                         *)
(*   - EconomicEventsClient.create_date_ranges  (the DateRanges part)      *)
(*   - EconomicEventsCrawler                    (the Crawler part)         *)
(*   - ForexDataCSVCrawler                      (the Forex part)           *)
(*   - EconomicEventsClient.upsert_events       (the Upsert part)          *)
(*   - EconomicEventsClient.update_for_dates    (the Run part)             *)
(*   - ForexDataClient._save                    (the Bars part)            *)
(*                                                                         *)
(* Every part has its own specification over the shared variables; the     *)
(* parts a specification does not exercise stay in their initial state.    *)
(* Dates are day numbers (integers); a date range is a pair <<from, to>>.  *)
(***************************************************************************)
EXTENDS Integers, Sequences, FiniteSets, TLC

VARIABLES
    \* ---- create_date_ranges (client.py:85-119)
    today,              \* datetime.now(tz).date()
    start_arg,          \* the start_date argument: <<>> is None, <<d>> a date
    end_arg,            \* the end_date argument:   <<>> is None, <<d>> a date
    start_date,         \* the local start_date, advanced by the loop
    end_date,           \* the local end_date
    date_pairs,         \* the list being built
    cdr_pc,             \* "off" | "call" | "loop" | "done"
    \* ---- EconomicEventsCrawler (economic_events/crawler.py)
    date_ranges_set,    \* whether __init__ assigned self._date_ranges
    date_ranges,        \* self._date_ranges
    original_dates_count, \* self._original_dates_count
    max_retries,        \* self._max_retries_on_error
    attempt,            \* self._attempt
    dates_q,            \* crawl's local dates_q
    dates_to_crawl,     \* crawl's local dates_to_crawl (the batch)
    c_pc,               \* "off" | "idle" | "safe_crawl" | "returned" |
                        \* "returned_none" | "raised" | "attribute_error" |
                        \* "held" (update_for_dates holds it between two calls)
    handed,             \* history: how often each original unit was put in a batch
    attempts_made,      \* history: calls of _start_crawling for the current batch
    c_fault,            \* history: the fault _safe_crawl caught last for the batch
    c_result,           \* the record-sets the call of crawl() in progress returns,
                        \* each as <<unit, number of the attempt that fetched it>>
    c_slept,            \* history: the seconds _safe_crawl has slept in the call
                        \* of crawl() in progress
    c_faults_before,    \* history: an earlier call of crawl() caught a fault
    c_unclosed,         \* history: the browser sessions the attempts of the call
                        \* of crawl() in progress created and did not quit
    \* ---- ForexDataCSVCrawler (forex_data/crawler.py)
    tickers,            \* self._tickers
    original_tickers_count, \* self._original_tickers_count
    tickers_number,     \* crawl's local tickers_number
    tickers_to_crawl,   \* crawl's local tickers_to_crawl (the batch)
    f_pc,               \* "off" | "idle" | "loop" | "session" | "done" | "raised"
    f_handed,           \* history: how often each original ticker was put in a batch
    f_attempt,          \* self._attempt (BaseCrawler.__init__)
    unavailable,        \* the tickers missing from the site's available_symbols
    f_fetched,          \* history: the tickers a session that ended normally fetched
    f_sessions,         \* history: "with self._scrapper_class()" statements entered
    f_fault,            \* history: the exception that left crawl(), "" if none
    \* ---- EconomicEventsClient.upsert_events and the store (client.py:24-42)
    store,              \* the collection: how many documents equal each document
    indexes_ensured,    \* whether ensure_indexes has run
    events_n,           \* len(events)
    events_i,           \* how many events the for loop has taken
    event,              \* the loop variable: <<>> before the first turn, <<e>> after
    inserted,           \* the local counters
    updated,
    error,
    u_pc,               \* "off" | "idle" | "loop" | "returned" | "raised"
    u_calls,            \* history: calls of upsert_events so far
    u_faults,           \* history: faults of update_one in the current call
    u_last,             \* history of the last turn of the loop: the stored documents
                        \* that had the event's natural key before it, and whether
                        \* update_one raised
    \* ---- EconomicEventsClient.update_for_dates (client.py:44-70)
    crawler_class,      \* self._crawler_class
    shuffle_dates,      \* the argument shuffle_dates
    date_ranges_arg,    \* the argument date_ranges
    events_list,        \* the local events_list: the units of its record-sets
    events_k,           \* how many record-sets the for loop of line 56 has taken
    run_inserted,       \* the locals inserted, updated and error of update_for_dates
    run_updated,
    run_error,
    r_pc,               \* "off" | "call" | "construct" | "loop" | "crawl" | "upsert" |
                        \* "sleep" | "returned" | "raised" | "exit"
    r_fault,            \* the exception that left update_for_dates, "" if none
    r_log,              \* history: the log lines written, oldest first
    r_batches,          \* history: the calls of crawl() that returned
    r_sleeps,           \* history: the calls of time.sleep of line 70
    r_upsert_faults,    \* history: the faults of update_one in this run
    r_totals,           \* history: the sum of the counters upsert_events returned
    \* ---- ForexDataClient._save and its collection (forex_data/client.py:43-65)
    bars,               \* the collection: how many documents equal each document
    unique_index,       \* whether ensure_indexes keeps a unique index on
                        \* (ticker, timestamp)
    forex_tickers_list, \* the argument of _save
    chunks,             \* the chunks _save has still to hand to _save_chunk
    b_pc,               \* "off" | "idle" | "chunks" | "returned" | "raised"
    b_saves,            \* history: calls of _save so far
    b_latest            \* history: for each key, the bar handed last to insert_many

\* two processes that upsert into the same collection
VARIABLES
    procs,              \* for each process its call of upsert_events: the events,
                        \* the turns done, the counters, where it is, and (history)
                        \* the documents its update_one calls wrote
    last_write          \* history: for each natural key the document of the
                        \* latest update_one that wrote it

dateVars    == <<today, start_arg, end_arg, start_date, end_date, date_pairs, cdr_pc>>
crawlerVars == <<date_ranges_set, date_ranges, original_dates_count, max_retries,
                 attempt, dates_q, dates_to_crawl, c_pc, handed, attempts_made,
                 c_fault, c_result, c_slept, c_faults_before, c_unclosed>>
forexVars   == <<tickers, original_tickers_count, tickers_number, tickers_to_crawl,
                 f_pc, f_handed, f_attempt, unavailable, f_fetched, f_sessions,
                 f_fault>>
upsertVars  == <<store, indexes_ensured, events_n, events_i, event, inserted, updated,
                 error, u_pc, u_calls, u_faults, u_last>>
runVars     == <<crawler_class, shuffle_dates, date_ranges_arg, events_list, events_k,
                 run_inserted, run_updated, run_error, r_pc, r_fault, r_log,
                 r_batches, r_sleeps, r_upsert_faults, r_totals>>
barVars     == <<bars, unique_index, forex_tickers_list, chunks, b_pc, b_saves, b_latest>>
procVars    == <<procs, last_write>>
vars        == <<dateVars, crawlerVars, forexVars, upsertVars, runVars, barVars, procVars>>

\* what the actions of one part leave alone
notDateVars    == <<crawlerVars, forexVars, upsertVars, runVars, barVars, procVars>>
notCrawlerVars == <<dateVars, forexVars, upsertVars, runVars, barVars, procVars>>
notForexVars   == <<dateVars, crawlerVars, upsertVars, runVars, barVars, procVars>>
notUpsertVars  == <<dateVars, crawlerVars, forexVars, runVars, barVars, procVars>>
notBarVars     == <<dateVars, crawlerVars, forexVars, upsertVars, runVars, procVars>>

(***************************************************************************)
(* Bounds of the model                                                     *)
(***************************************************************************)
\* dates handed to create_date_ranges are the days 0..MaxDay
MaxDay == 16
\* the crawler is constructed with 0..MaxDateRanges date ranges
MaxDateRanges == 6
\* the forex crawler is constructed with 0..MaxTickers tickers
MaxTickers == 8
\* upsert_events is handed lists of 0..MaxEvents events
MaxEvents == 2
\* upsert_events is called at most MaxCalls times
MaxCalls == 2
\* update_for_dates is handed lists of 0..MaxRunRanges date ranges
MaxRunRanges == 6
\* update_one faults at most MaxUpsertFaults times in one run of update_for_dates
MaxUpsertFaults == 1
\* _save is handed lists of 1..MaxBars bars
MaxBars == 2
\* _save is called at most MaxSaves times
MaxSaves == 2
\* each of the two processes upserts a list of 0..MaxProcEvents events
MaxProcEvents == 2

(***************************************************************************)
(* Program constants                                                       *)
(***************************************************************************)
\* timedelta(weeks=5 * 52), in weeks
DefaultWeeksBack == 260
\* timedelta(days=6): a window ends six days after it starts
WindowLastDay == 6
\* timedelta(weeks=1), in days
WindowStep == 7
\* random.randint(2, 5) in EconomicEventsCrawler.crawl
MinDatesBatch == 2
MaxDatesBatch == 5
\* "if len(self._date_ranges) <= 5" in EconomicEventsCrawler.crawl
TakeAllDates == 5
\* "if len(self._tickers) <= 6" in ForexDataCSVCrawler.crawl
TakeAllTickers == 6
\* created_at: datetime = datetime.now(), evaluated once, when the class
\* Event is defined
ImportTime == 0
\* BaseCrawler.__init__(..., max_retries: int = 5)
DefaultMaxRetries == 5
\* time.sleep(20) in _safe_crawl
RetryDelay == 20
\* the chunk size of ForexDataClient._save
ChunkSize == 10000
\* random.randint(3, 6) in ForexDataCSVCrawler.crawl
MinTickersBatch == 3
MaxTickersBatch == 6

None == <<>>
Some(x) == <<x>>

(***************************************************************************)
(* Sequence helpers                                                        *)
(***************************************************************************)
Range(s) == {s[i] : i \in DOMAIN s}

\* Python's "x in list"
InList(x, s) == \E i \in DOMAIN s : s[i] = x

\* [x for x in s if x not in drop]
Without(s, drop) == SelectSeq(s, LAMBDA x : ~InList(x, drop))

\* number of positions of s holding x
Count(x, s) == Cardinality({i \in DOMAIN s : s[i] = x})

Distinct(s) == \A i, j \in DOMAIN s : s[i] = s[j] => i = j

\* random.sample(s, k): every list of k elements taken from k different
\* positions of s, in any order
RECURSIVE PickPositions(_, _)
PickPositions(P, k) ==
    IF k = 0 THEN {<<>>}
    ELSE UNION {{<<p>> \o rest : rest \in PickPositions(P \ {p}, k - 1)} : p \in P}

RandomSample(s, k) ==
    {[i \in 1..k |-> s[ps[i]]] : ps \in PickPositions(DOMAIN s, k)}

(***************************************************************************)
(* create_date_ranges  (economic_events/client.py:85-119)                  *)
(***************************************************************************)
Days == 0..MaxDay

DatesOff ==
    /\ today = 0
    /\ start_arg = None
    /\ end_arg = None
    /\ start_date = 0
    /\ end_date = 0
    /\ date_pairs = <<>>
    /\ cdr_pc = "off"

\* a call create_date_ranges(start_arg, end_arg) made on the day `today`
DatesInit ==
    /\ today \in Days
    /\ start_arg \in {None} \cup {Some(d) : d \in Days}
    /\ end_arg \in {None} \cup {Some(d) : d \in Days}
    /\ start_date = 0
    /\ end_date = 0
    /\ date_pairs = <<>>
    /\ cdr_pc = "call"

\* a variant of Window: the window ends a week after it starts
Window_Overlapping(s) == <<s, s + WindowStep>>
\* (start_date, start_date + timedelta(days=6)), line 116
Window(s) == <<s, s + WindowLastDay>>

\* a variant of NextStart: the step is a day too long
NextStart_Gap(s) == s + WindowStep + 1
\* start_date += timedelta(weeks=1), line 117
NextStart(s) == s + WindowStep

\* while start_date < end_date, line 115
LoopCondition(s, e) == s < e

\* lines 105-113: today, the defaults and the empty list
CreateDateRanges_Defaults ==
    /\ cdr_pc = "call"
    /\ start_date' = IF start_arg = None
                     THEN today - WindowStep * DefaultWeeksBack
                     ELSE start_arg[1]
    /\ end_date' = IF end_arg = None THEN today ELSE end_arg[1]
    /\ date_pairs' = <<>>
    /\ cdr_pc' = "loop"
    /\ UNCHANGED <<today, start_arg, end_arg>>
    /\ UNCHANGED notDateVars

\* lines 115-117: one turn of the while loop
CreateDateRanges_Loop ==
    /\ cdr_pc = "loop"
    /\ LoopCondition(start_date, end_date)
    /\ date_pairs' = Append(date_pairs, Window(start_date))
    /\ start_date' = NextStart(start_date)
    /\ UNCHANGED <<today, start_arg, end_arg, end_date, cdr_pc>>
    /\ UNCHANGED notDateVars

\* lines 115, 119: the loop ends, the list is returned
CreateDateRanges_Return ==
    /\ cdr_pc = "loop"
    /\ ~LoopCondition(start_date, end_date)
    /\ cdr_pc' = "done"
    /\ UNCHANGED <<today, start_arg, end_arg, start_date, end_date, date_pairs>>
    /\ UNCHANGED notDateVars

DatesNext ==
    \/ CreateDateRanges_Defaults
    \/ CreateDateRanges_Loop
    \/ CreateDateRanges_Return

\* the list create_date_ranges(s, e) returns, as a function of its inputs
RECURSIVE DateRangesFrom(_, _)
DateRangesFrom(s, e) ==
    IF LoopCondition(s, e)
    THEN <<Window(s)>> \o DateRangesFrom(NextStart(s), e)
    ELSE <<>>

(***************************************************************************)
(* EconomicEventsCrawler  (economic_events/crawler.py)                     *)
(***************************************************************************)
\* the values of max_retries the crawler is constructed with
RetryChoices == {0, 1, DefaultMaxRetries}

\* the date ranges a caller hands to the constructor: the first n weekly
\* windows create_date_ranges produces from day 0
InputDateRanges(n) == DateRangesFrom(0, WindowStep * n)

CrawlerOff ==
    /\ date_ranges_set = FALSE
    /\ date_ranges = <<>>
    /\ original_dates_count = 0
    /\ max_retries = 0
    /\ attempt = 0
    /\ dates_q = 0
    /\ dates_to_crawl = <<>>
    /\ c_pc = "off"
    /\ handed = <<>>
    /\ attempts_made = 0
    /\ c_fault = ""
    /\ c_result = <<>>
    /\ c_slept = 0
    /\ c_faults_before = FALSE
    /\ c_unclosed = 0

\* BaseCrawler.__init__ and EconomicEventsCrawler.__init__: the attributes
\* _date_ranges and _original_dates_count are assigned only "if date_ranges"
CrawlerInit ==
    \E n \in 0..MaxDateRanges :
        /\ date_ranges_set = (n > 0)
        /\ date_ranges = InputDateRanges(n)
        /\ original_dates_count = n
        /\ max_retries \in RetryChoices
        /\ attempt = 0
        /\ dates_q = 0
        /\ dates_to_crawl = <<>>
        /\ c_pc = "idle"
        /\ handed = [u \in Range(InputDateRanges(n)) |-> 0]
        /\ attempts_made = 0
        /\ c_fault = ""
        /\ c_result = <<>>
        /\ c_slept = 0
        /\ c_faults_before = FALSE
        /\ c_unclosed = 0

\* a variant of RemoveDates: the filtering of line 100 is missing
RemoveDates_KeepsBatch(ranges, dates) ==
    IF dates = ranges THEN <<>> ELSE ranges
\* _remove_dates(dates), lines 87-100
RemoveDates(ranges, dates) ==
    LET emptied == IF dates = ranges THEN <<>> ELSE ranges
    IN  Without(emptied, dates)

\* a variant of TakeAll: the threshold of the forex crawler
TakeAll_Six(ranges) == Len(ranges) <= TakeAllTickers
\* len(self._date_ranges) <= 5, line 24
TakeAll(ranges) == Len(ranges) <= TakeAllDates

\* iteration_done, lines 102-104 (defined once _date_ranges is assigned)
IterationDone == Len(date_ranges) = 0

\* a variant of PercentageDone: the share that remains
PercentageDone_Remaining == <<Len(date_ranges), original_dates_count>>
\* percentage_done, lines 106-108, as the pair <<numerator, denominator>>
PercentageDone == <<original_dates_count - Len(date_ranges), original_dates_count>>

Hand(batch) == [u \in DOMAIN handed |-> handed[u] + Count(u, batch)]

\* a variant of ResetAttempt: the counter is left as the last call left it
ResetAttempt_Kept(a) == a
\* crawl(), line 22: self._attempt = 0
ResetAttempt(a) == 0

\* crawl(), lines 21-26 and 30: the whole remainder is the batch
Crawl_TakeAll ==
    /\ c_pc = "idle"
    /\ date_ranges_set
    /\ ~IterationDone
    /\ TakeAll(date_ranges)
    /\ dates_q' \in MinDatesBatch..MaxDatesBatch
    /\ attempt' = ResetAttempt(attempt)
    /\ c_faults_before' = (c_faults_before \/ attempt > 0)
    /\ c_slept' = 0
    /\ c_unclosed' = 0
    /\ dates_to_crawl' = date_ranges
    /\ date_ranges' = RemoveDates(date_ranges, date_ranges)
    /\ handed' = Hand(date_ranges)
    /\ attempts_made' = 0
    /\ c_fault' = ""
    /\ c_result' = <<>>
    /\ c_pc' = "safe_crawl"
    /\ UNCHANGED <<date_ranges_set, original_dates_count, max_retries>>
    /\ UNCHANGED notCrawlerVars

\* crawl(), lines 21-22, 27-30, and _cut_original_date_ranges, lines 83-85
Crawl_Sample ==
    /\ c_pc = "idle"
    /\ date_ranges_set
    /\ ~IterationDone
    /\ ~TakeAll(date_ranges)
    /\ \E q \in MinDatesBatch..MaxDatesBatch :
         \E dates \in RandomSample(date_ranges, q) :
            /\ dates_q' = q
            /\ dates_to_crawl' = dates
            /\ date_ranges' = RemoveDates(date_ranges, dates)
            /\ handed' = Hand(dates)
    /\ attempt' = ResetAttempt(attempt)
    /\ c_faults_before' = (c_faults_before \/ attempt > 0)
    /\ c_slept' = 0
    /\ c_unclosed' = 0
    /\ attempts_made' = 0
    /\ c_fault' = ""
    /\ c_result' = <<>>
    /\ c_pc' = "safe_crawl"
    /\ UNCHANGED <<date_ranges_set, original_dates_count, max_retries>>
    /\ UNCHANGED notCrawlerVars

\* a variant of MayAttempt: the loop has no bound
MayAttempt_Unbounded(a, m) == TRUE
\* a variant of MayAttempt: the bound is inclusive
MayAttempt_Inclusive(a, m) == a <= m
\* _safe_crawl, line 33: the loop condition
MayAttempt(a, m) == a < m

\* what goes wrong inside _start_crawling, lines 51-63: the session cannot
\* be opened or the source fails (SourceUnavailable), setup() or get_data()
\* cannot serve a date window (UnitNotAvailable), or parse_objects, which is
\* EventList.model_validate(data), rejects the list because of one record
\* (RecordInvalid); each is an exception that leaves _start_crawling
FaultKinds == {"SourceUnavailable", "UnitNotAvailable", "RecordInvalid"}

\* a variant of RetrySleep: the sleep also precedes the raise
RetrySleep_Always(a, m) == RetryDelay
\* _safe_crawl, lines 39-46: the seconds slept after the fault that made the
\* counter a: time.sleep(20) when another attempt follows, none before the raise
RetrySleep(a, m) == IF MayAttempt(a, m) THEN RetryDelay ELSE 0

\* a variant of StoredEvents: the record-sets of the first attempt
StoredEvents_FirstAttempt(batch, n) == [i \in DOMAIN batch |-> <<batch[i], 1>>]
\* _start_crawling, lines 49-65: stored_events starts empty in every call
\* and gets one record-set for each date range of the batch, in its order;
\* n is the number of the attempt that fetches them
StoredEvents(batch, n) == [i \in DOMAIN batch |-> <<batch[i], n>>]

\* _safe_crawl, lines 33-35, and _start_crawling, lines 48-65: the session
\* is opened, _start_crawling returns one record-set for every date range of
\* the batch, and __exit__ (components/scrapper.py:71-72) quits the session
StartCrawling_Ok ==
    /\ c_pc = "safe_crawl"
    /\ MayAttempt(attempt, max_retries)
    /\ attempts_made' = attempts_made + 1
    /\ c_result' = StoredEvents(dates_to_crawl, attempts_made + 1)
    /\ UNCHANGED <<c_slept, c_faults_before, c_unclosed>>
    /\ c_pc' = "returned"
    /\ UNCHANGED <<date_ranges_set, date_ranges, original_dates_count, max_retries,
                   attempt, dates_q, dates_to_crawl, handed, c_fault>>
    /\ UNCHANGED notCrawlerVars

\* _safe_crawl, lines 33-46: _start_crawling faults; retry after the sleep
\* or, with the budget used up, raise.  A fault inside the with block has
\* __exit__ quit the session; a fault of __enter__ after the browser was
\* created (components/scrapper.py:55-68) leaves the with statement without
\* __exit__, and the session stays open
StartCrawling_Fault ==
    /\ c_pc = "safe_crawl"
    /\ MayAttempt(attempt, max_retries)
    /\ attempts_made' = attempts_made + 1
    /\ \/ /\ c_fault' \in FaultKinds
          /\ c_unclosed' = c_unclosed
       \/ /\ c_fault' = "SourceUnavailable"
          /\ c_unclosed' = c_unclosed + 1
    /\ c_slept' = c_slept + RetrySleep(attempt + 1, max_retries)
    /\ UNCHANGED c_faults_before
    /\ attempt' = attempt + 1
    /\ c_pc' = IF MayAttempt(attempt + 1, max_retries) THEN "safe_crawl" ELSE "raised"
    /\ UNCHANGED <<date_ranges_set, date_ranges, original_dates_count, max_retries,
                   dates_q, dates_to_crawl, handed, c_result>>
    /\ UNCHANGED notCrawlerVars

\* _safe_crawl, line 33: the loop is never entered and the function ends
\* without a return statement
SafeCrawl_FallThrough ==
    /\ c_pc = "safe_crawl"
    /\ ~MayAttempt(attempt, max_retries)
    /\ c_pc' = "returned_none"
    /\ UNCHANGED <<date_ranges_set, date_ranges, original_dates_count, max_retries,
                   attempt, dates_q, dates_to_crawl, handed, attempts_made, c_fault,
                   c_result, c_slept, c_faults_before, c_unclosed>>
    /\ UNCHANGED notCrawlerVars

\* crawl() is over (by return or by raise): its locals are gone and the caller
\* is back at "while not crawler.iteration_done"
Crawl_End ==
    /\ c_pc \in {"returned", "returned_none", "raised"}
    /\ c_pc' = "idle"
    /\ dates_q' = 0
    /\ dates_to_crawl' = <<>>
    /\ c_fault' = ""
    /\ c_result' = <<>>
    /\ c_slept' = 0
    /\ c_unclosed' = 0
    /\ UNCHANGED <<date_ranges_set, date_ranges, original_dates_count, max_retries,
                   attempt, handed, attempts_made, c_faults_before>>
    /\ UNCHANGED notCrawlerVars

\* iteration_done on a crawler whose _date_ranges was never assigned
IterationDone_Unassigned ==
    /\ c_pc = "idle"
    /\ ~date_ranges_set
    /\ c_pc' = "attribute_error"
    /\ UNCHANGED <<date_ranges_set, date_ranges, original_dates_count, max_retries,
                   attempt, dates_q, dates_to_crawl, handed, attempts_made, c_fault,
                   c_result, c_slept, c_faults_before, c_unclosed>>
    /\ UNCHANGED notCrawlerVars

CrawlerNext ==
    \/ Crawl_TakeAll
    \/ Crawl_Sample
    \/ StartCrawling_Ok
    \/ StartCrawling_Fault
    \/ SafeCrawl_FallThrough
    \/ Crawl_End
    \/ IterationDone_Unassigned

(***************************************************************************)
(* ForexDataCSVCrawler  (forex_data/crawler.py)                            *)
(***************************************************************************)
\* the crawler is constructed with the first 0..MaxTickers of the tickers
\* ForexDataCSVClient.tickers lists (forex_data/client.py:217-241)
AllTickers ==
    <<"EURUSD", "GBPUSD", "USDCAD", "USDCHF", "USDJPY", "AUDCAD", "AUDCHF",
      "AUDJPY", "AUDUSD", "CADCHF", "CADJPY", "CHFJPY", "EURAUD", "EURCAD",
      "EURCHF", "EURGBP", "EURJPY", "GBPAUD", "GBPCAD", "GBPCHF", "GBPJPY">>

InputTickers(n) == SubSeq(AllTickers, 1, n)

\* what the site does not offer ("ticker not in self.available_symbols",
\* forex_data/scrapper.py:72): nothing, one ticker, or two tickers
UnavailableChoices == {{}, {"GBPUSD"}, {"EURUSD", "USDCHF"}}

ForexOff ==
    /\ tickers = <<>>
    /\ original_tickers_count = 0
    /\ tickers_number = 0
    /\ tickers_to_crawl = <<>>
    /\ f_pc = "off"
    /\ f_handed = <<>>
    /\ f_attempt = 0
    /\ unavailable = {}
    /\ f_fetched = <<>>
    /\ f_sessions = 0
    /\ f_fault = ""

\* BaseCrawler.__init__ and ForexDataCSVCrawler.__init__, lines 11-14
ForexInit ==
    \E n \in 0..MaxTickers :
        /\ tickers = InputTickers(n)
        /\ original_tickers_count = n
        /\ tickers_number = 0
        /\ tickers_to_crawl = <<>>
        /\ f_pc = "idle"
        /\ f_handed = [t \in Range(InputTickers(n)) |-> 0]
        /\ f_attempt = 0
        /\ unavailable \in UnavailableChoices
        /\ f_fetched = <<>>
        /\ f_sessions = 0
        /\ f_fault = ""

\* a variant of RemoveTickers: the filtering of line 45 is missing
RemoveTickers_KeepsBatch(remaining, batch) ==
    IF batch = remaining THEN <<>> ELSE remaining
\* _remove_tickers(tickers), lines 41-45
RemoveTickers(remaining, batch) ==
    LET emptied == IF batch = remaining THEN <<>> ELSE remaining
    IN  Without(emptied, batch)

\* len(self._tickers) <= 6, line 20
FxTakeAll(remaining) == Len(remaining) <= TakeAllTickers

\* iteration_done, lines 47-49
FxIterationDone == Len(tickers) = 0

\* percentage_done, lines 51-53, as the pair <<numerator, denominator>>
FxPercentageDone == <<original_tickers_count - Len(tickers), original_tickers_count>>

FxHand(batch) == [t \in DOMAIN f_handed |-> f_handed[t] + Count(t, batch)]

\* crawl() is called
FxCrawl_Call ==
    /\ f_pc = "idle"
    /\ f_pc' = "loop"
    /\ UNCHANGED <<tickers, original_tickers_count, tickers_number, tickers_to_crawl,
                   f_handed, f_attempt, unavailable, f_fetched, f_sessions, f_fault>>
    /\ UNCHANGED notForexVars

\* crawl(), lines 17-22: the whole remainder is the batch
FxCrawl_TakeAll ==
    /\ f_pc = "loop"
    /\ ~FxIterationDone
    /\ FxTakeAll(tickers)
    /\ tickers_number' \in MinTickersBatch..MaxTickersBatch
    /\ tickers_to_crawl' = tickers
    /\ tickers' = RemoveTickers(tickers, tickers)
    /\ f_handed' = FxHand(tickers)
    /\ f_fetched' = <<>>
    /\ f_pc' = "session"
    /\ UNCHANGED <<original_tickers_count, f_attempt, unavailable, f_sessions, f_fault>>
    /\ UNCHANGED notForexVars

\* crawl(), lines 17-18, 23-24, and _cut_tickers_list, lines 36-39
FxCrawl_Sample ==
    /\ f_pc = "loop"
    /\ ~FxIterationDone
    /\ ~FxTakeAll(tickers)
    /\ \E q \in MinTickersBatch..MaxTickersBatch :
         \E batch \in RandomSample(tickers, q) :
            /\ tickers_number' = q
            /\ tickers_to_crawl' = batch
            /\ tickers' = RemoveTickers(tickers, batch)
            /\ f_handed' = FxHand(batch)
    /\ f_fetched' = <<>>
    /\ f_pc' = "session"
    /\ UNCHANGED <<original_tickers_count, f_attempt, unavailable, f_sessions, f_fault>>
    /\ UNCHANGED notForexVars

\* a variant of FxFetched: the loop over the batch ends at the first ticker
\* that is not available
FxFetched_StopsAtSkip(batch) ==
    LET missing == {i \in DOMAIN batch : batch[i] \in unavailable}
    IN  IF missing = {} THEN batch
        ELSE SubSeq(batch, 1, (CHOOSE i \in missing : \A j \in missing : i <= j) - 1)
\* crawl(), lines 30-34: get_data raises TickerNotAvailableException for a
\* ticker that is not available (scrapper.py:72-73) and the loop continues
\* with the next ticker; the tickers fetched are the available ones, in order
FxFetched(batch) == SelectSeq(batch, LAMBDA t : t \notin unavailable)

\* crawl(), lines 27-34: one session for the batch, which ends normally
FxSession_Done ==
    /\ f_pc = "session"
    /\ f_sessions' = f_sessions + 1
    /\ f_fetched' = FxFetched(tickers_to_crawl)
    /\ f_pc' = "loop"
    /\ UNCHANGED <<tickers, original_tickers_count, tickers_number, tickers_to_crawl,
                   f_handed, f_attempt, unavailable, f_fault>>
    /\ UNCHANGED notForexVars

\* crawl(), lines 27-34: opening the session, setup() or get_data() raises
\* anything but TickerNotAvailableException; nothing in crawl() catches it
FxSession_Fault ==
    /\ f_pc = "session"
    /\ f_sessions' = f_sessions + 1
    /\ f_fault' = "SourceUnavailable"
    /\ f_pc' = "raised"
    /\ UNCHANGED <<tickers, original_tickers_count, tickers_number, tickers_to_crawl,
                   f_handed, f_attempt, unavailable, f_fetched>>
    /\ UNCHANGED notForexVars

\* crawl(), line 17: "while self._tickers" ends the loop
FxCrawl_Return ==
    /\ f_pc = "loop"
    /\ FxIterationDone
    /\ f_pc' = "done"
    /\ UNCHANGED <<tickers, original_tickers_count, tickers_number, tickers_to_crawl,
                   f_handed, f_attempt, unavailable, f_fetched, f_sessions, f_fault>>
    /\ UNCHANGED notForexVars

ForexNext ==
    \/ FxCrawl_Call
    \/ FxCrawl_TakeAll
    \/ FxCrawl_Sample
    \/ FxSession_Done
    \/ FxSession_Fault
    \/ FxCrawl_Return

(***************************************************************************)
(* Events, the store, and EconomicEventsClient.upsert_events               *)
(* (economic_events/models.py:15-31, economic_events/client.py:24-42)      *)
(***************************************************************************)
\* the natural keys (title, timestamp, subject.name) of the events handed to
\* upsert_events: one key and one more for each component that can differ
EventKeys ==
    { <<"CPI m/m", 1, "United States">>,
      <<"CPI m/m", 1, "Euro Area">>,
      <<"CPI m/m", 2, "United States">>,
      <<"GDP q/q", 1, "United States">> }

\* CountrySubject(name, currency): the currency scraped with the country
CurrencyOf(name) == IF name = "United States" THEN "USD" ELSE "EUR"

\* the values of the field actual (it stands for the other value fields
\* previous, consensus, forecast and sentiment, which are handled alike)
Actuals == {"0.3%", "0.4%"}

\* the times at which an Event is validated (updated_at_signal sets
\* updated_at to datetime.now() on every validation)
Stamps == {1, 2}

\* Event(...): the model object
Event(key, actual, stamp) ==
    [ title      |-> key[1],
      timestamp  |-> key[2],
      subject    |-> [name |-> key[3], currency |-> CurrencyOf(key[3])],
      actual     |-> actual,
      created_at |-> ImportTime,
      updated_at |-> stamp ]

\* the events handed to upsert_events: the first key with every value of
\* actual at every validation time, the other keys with every value of actual
FirstKey == <<"CPI m/m", 1, "United States">>

EventPool ==
    {Event(FirstKey, a, t) : a \in Actuals, t \in Stamps}
        \cup {Event(k, a, 1) : k \in EventKeys, a \in Actuals}

\* event.model_dump(): the document, field by field
ModelDump(e) ==
    [ title      |-> e.title,
      timestamp  |-> e.timestamp,
      subject    |-> [name |-> e.subject.name, currency |-> e.subject.currency],
      actual     |-> e.actual,
      created_at |-> e.created_at,
      updated_at |-> e.updated_at ]

AllDocs == {ModelDump(e) : e \in EventPool}

\* the value of a (dotted) field path in a document
FieldOf(doc, path) ==
    CASE path = "title"        -> doc.title
      [] path = "timestamp"    -> doc.timestamp
      [] path = "subject.name" -> doc.subject.name
      [] path = "actual"       -> doc.actual

\* variants of UpsertFilter: a value field in the query, and a key field
\* missing from it
UpsertFilter_WithActual(e) ==
    [path \in {"title", "timestamp", "subject.name", "actual"} |-> FieldOf(e, path)]
UpsertFilter_NoSubject(e) ==
    [path \in {"title", "timestamp"} |-> FieldOf(e, path)]
\* the query of update_one, line 30: the fields it names and their values
UpsertFilter(e) ==
    [path \in {"title", "timestamp", "subject.name"} |-> FieldOf(e, path)]

Matches(doc, filter) == \A path \in DOMAIN filter : FieldOf(doc, path) = filter[path]

Stored(st) == {d \in DOMAIN st : st[d] > 0}

\* the natural key of an event or a document
NaturalKey(d) == <<d.title, d.timestamp, d.subject.name>>

WithKeyOf(e, st) == {d \in Stored(st) : NaturalKey(d) = NaturalKey(e)}

NoTurn == [prior |-> {}, faulted |-> FALSE]

\* the store's update_one(filter, document, upsert=True), which is not part
\* of the sources and is modelled from the specification's Store
\* ("if no document matches the key, insert ...; if a match is found and
\* fields differ, count as updated"): with no document matching the filter
\* the document is inserted (upserted_id is set); else one matching document
\* gets the fields of the new one, and modified_count tells whether that
\* changed it
UpdateOne(st, filter, document) ==
    LET matching == {d \in Stored(st) : Matches(d, filter)}
    IN  IF matching = {}
        THEN {[store |-> [st EXCEPT ![document] = @ + 1],
               upserted |-> TRUE, modified_count |-> 0]}
        ELSE {IF d = document
              THEN [store |-> st, upserted |-> FALSE, modified_count |-> 0]
              ELSE [store |-> [st EXCEPT ![d] = @ - 1, ![document] = @ + 1],
                    upserted |-> FALSE, modified_count |-> 1]
              : d \in matching}

\* a variant of CountResult: every match counts as an update
CountResult_MatchIsUpdate(res) ==
    IF res.upserted THEN <<1, 0>> ELSE <<0, 1>>
\* lines 37-41: what the result adds to <<inserted, updated>>
CountResult(res) ==
    IF res.upserted THEN <<1, 0>>
    ELSE IF res.modified_count > 0 THEN <<0, 1>>
    ELSE <<0, 0>>

UpsertOff ==
    /\ store = <<>>
    /\ indexes_ensured = FALSE
    /\ events_n = 0
    /\ events_i = 0
    /\ event = None
    /\ inserted = 0
    /\ updated = 0
    /\ error = 0
    /\ u_pc = "off"
    /\ u_calls = 0
    /\ u_faults = 0
    /\ u_last = NoTurn

\* an empty collection and a client that has not been called yet
UpsertInit ==
    /\ store = [d \in AllDocs |-> 0]
    /\ indexes_ensured = FALSE
    /\ events_n = 0
    /\ events_i = 0
    /\ event = None
    /\ inserted = 0
    /\ updated = 0
    /\ error = 0
    /\ u_pc = "idle"
    /\ u_calls = 0
    /\ u_faults = 0
    /\ u_last = NoTurn

\* upsert_events(events), lines 25-26: ensure_indexes, the counters at 0
UpsertEvents_Begin ==
    /\ u_pc = "idle"
    /\ u_calls < MaxCalls
    /\ u_calls' = u_calls + 1
    /\ indexes_ensured' = TRUE
    /\ events_n' \in 0..MaxEvents
    /\ events_i' = 0
    /\ event' = None
    /\ inserted' = 0
    /\ updated' = 0
    /\ error' = 0
    /\ u_faults' = 0
    /\ u_last' = NoTurn
    /\ u_pc' = "loop"
    /\ UNCHANGED store
    /\ UNCHANGED notUpsertVars

\* line 25: ensure_indexes raises; it is awaited outside the try
UpsertEvents_IndexFault ==
    /\ u_pc = "idle"
    /\ u_calls < MaxCalls
    /\ u_calls' = u_calls + 1
    /\ u_pc' = "raised"
    /\ UNCHANGED <<store, indexes_ensured, events_n, events_i, event, inserted,
                   updated, error, u_faults, u_last>>
    /\ UNCHANGED notUpsertVars

\* lines 27-33, 36-41: one turn of the loop, update_one returns
UpsertEvents_Record ==
    /\ u_pc = "loop"
    /\ events_i < events_n
    /\ \E e \in EventPool :
         \E res \in UpdateOne(store, UpsertFilter(e), ModelDump(e)) :
            /\ event' = Some(e)
            /\ u_last' = [prior |-> WithKeyOf(e, store), faulted |-> FALSE]
            /\ store' = res.store
            /\ inserted' = inserted + CountResult(res)[1]
            /\ updated' = updated + CountResult(res)[2]
    /\ events_i' = events_i + 1
    /\ UNCHANGED <<indexes_ensured, events_n, error, u_pc, u_calls, u_faults>>
    /\ UNCHANGED notUpsertVars

\* a variant of UpsertEvents_RecordFault: nothing catches the exception
UpsertEvents_RecordFault_Propagates ==
    /\ u_pc = "loop"
    /\ events_i < events_n
    /\ \E e \in EventPool :
         /\ event' = Some(e)
         /\ u_last' = [prior |-> WithKeyOf(e, store), faulted |-> TRUE]
    /\ events_i' = events_i + 1
    /\ u_faults' = u_faults + 1
    /\ u_pc' = "raised"
    /\ UNCHANGED <<store, indexes_ensured, events_n, inserted, updated, error, u_calls>>
    /\ UNCHANGED notUpsertVars

\* lines 27-36: one turn of the loop, update_one raises (whether the store
\* had applied the write before it failed is not known to the client)
UpsertEvents_RecordFault ==
    /\ u_pc = "loop"
    /\ events_i < events_n
    /\ \E e \in EventPool :
         /\ event' = Some(e)
         /\ u_last' = [prior |-> WithKeyOf(e, store), faulted |-> TRUE]
         /\ \/ store' = store
            \/ \E res \in UpdateOne(store, UpsertFilter(e), ModelDump(e)) :
                  store' = res.store
    /\ events_i' = events_i + 1
    /\ error' = error + 1
    /\ u_faults' = u_faults + 1
    /\ UNCHANGED <<indexes_ensured, events_n, inserted, updated, u_pc, u_calls>>
    /\ UNCHANGED notUpsertVars

\* line 42: the list is exhausted, the counters are returned
UpsertEvents_Return ==
    /\ u_pc = "loop"
    /\ events_i = events_n
    /\ u_pc' = "returned"
    /\ UNCHANGED <<store, indexes_ensured, events_n, events_i, event, inserted,
                   updated, error, u_calls, u_faults, u_last>>
    /\ UNCHANGED notUpsertVars

\* the call is over (by return or by raise): its locals are gone
UpsertEvents_End ==
    /\ u_pc \in {"returned", "raised"}
    /\ u_pc' = "idle"
    /\ events_n' = 0
    /\ events_i' = 0
    /\ event' = None
    /\ inserted' = 0
    /\ updated' = 0
    /\ error' = 0
    /\ u_faults' = 0
    /\ u_last' = NoTurn
    /\ UNCHANGED <<store, indexes_ensured, u_calls>>
    /\ UNCHANGED notUpsertVars

UpsertNext ==
    \/ UpsertEvents_Begin
    \/ UpsertEvents_IndexFault
    \/ UpsertEvents_Record
    \/ UpsertEvents_RecordFault
    \/ UpsertEvents_Return
    \/ UpsertEvents_End

(***************************************************************************)
(* EconomicEventsClient.update_for_dates  (economic_events/client.py:44-70) *)
(***************************************************************************)
\* the classes a client is constructed with (client.py:19-21): the crawler
\* class of crawler.py, whose __init__ takes date_ranges as its first
\* positional parameter, and a subclass of it whose __init__ takes the
\* scrapper class first and the date ranges second, as line 50 passes them
CrawlerClasses == {"EconomicEventsCrawler", "ScrapperFirstCrawler"}

Reverse(s) == [i \in DOMAIN s |-> s[Len(s) + 1 - i]]

\* random.shuffle(date_ranges), line 48: the list in another order (of all
\* the orders the model draws this one)
Shuffles(s) == {Reverse(s)}

\* what the source holds for a date window: one event inside the window
EventsOf(w) == <<Event(<<"CPI m/m", w[1], "United States">>, "0.3%", 1)>>

\* the documents a run can write
RunDocs == {ModelDump(EventsOf(w)[1]) : w \in Range(InputDateRanges(MaxRunRanges))}

RunOff ==
    /\ crawler_class = ""
    /\ shuffle_dates = FALSE
    /\ date_ranges_arg = <<>>
    /\ events_list = <<>>
    /\ events_k = 0
    /\ run_inserted = 0
    /\ run_updated = 0
    /\ run_error = 0
    /\ r_pc = "off"
    /\ r_fault = ""
    /\ r_log = <<>>
    /\ r_batches = 0
    /\ r_sleeps = 0
    /\ r_upsert_faults = 0
    /\ r_totals = <<0, 0, 0>>

\* a client (client.py:19-22) on an empty collection, and a call of
\* update_for_dates(date_ranges, shuffle_dates) with the first n weekly windows
RunInit ==
    \E n \in 0..MaxRunRanges :
        /\ crawler_class \in CrawlerClasses
        /\ shuffle_dates \in BOOLEAN
        /\ date_ranges_arg = InputDateRanges(n)
        /\ events_list = <<>>
        /\ events_k = 0
        /\ run_inserted = 0
        /\ run_updated = 0
        /\ run_error = 0
        /\ r_pc = "call"
        /\ r_fault = ""
        /\ r_log = <<>>
        /\ r_batches = 0
        /\ r_sleeps = 0
        /\ r_upsert_faults = 0
        /\ r_totals = <<0, 0, 0>>
        /\ store = [d \in RunDocs |-> 0]
        /\ indexes_ensured = FALSE
        /\ events_n = 0
        /\ events_i = 0
        /\ event = None
        /\ inserted = 0
        /\ updated = 0
        /\ error = 0
        /\ u_pc = "off"
        /\ u_calls = 0
        /\ u_faults = 0
        /\ u_last = NoTurn

\* the variables of upsert_events that a run leaves alone (its locals are
\* gone when the call is over)
upsertLocals == <<events_n, events_i, event, inserted, updated, error, u_pc, u_calls,
                  u_faults, u_last>>

\* lines 47-48
Run_Shuffle ==
    /\ r_pc = "call"
    /\ date_ranges_arg' \in IF shuffle_dates THEN Shuffles(date_ranges_arg)
                                             ELSE {date_ranges_arg}
    /\ r_pc' = "construct"
    /\ UNCHANGED <<crawler_class, shuffle_dates, events_list, events_k, run_inserted,
                   run_updated, run_error, r_fault, r_log, r_batches,
                   r_sleeps, r_upsert_faults, r_totals>>
    /\ UNCHANGED <<dateVars, crawlerVars, forexVars, upsertVars, barVars, procVars>>

\* line 50, self._crawler_class(self._scrapper_class, date_ranges, gui=gui),
\* with EconomicEventsCrawler.__init__(self, date_ranges=None, *args,
\* **kwargs) of crawler.py:13-18: the scrapper class is bound to date_ranges
\* and the list goes to BaseCrawler.__init__ as scrapper_class; a class is
\* true, so line 18 takes len() of a class and raises TypeError
Run_Construct_TypeError ==
    /\ r_pc = "construct"
    /\ crawler_class = "EconomicEventsCrawler"
    /\ r_fault' = "TypeError"
    /\ r_pc' = "raised"
    /\ UNCHANGED <<crawler_class, shuffle_dates, date_ranges_arg, events_list, events_k,
                   run_inserted, run_updated, run_error, r_log, r_batches,
                   r_sleeps, r_upsert_faults, r_totals>>
    /\ UNCHANGED <<dateVars, crawlerVars, forexVars, upsertVars, barVars, procVars>>

\* line 50 with a class that takes the arguments in the order they are
\* passed: BaseCrawler.__init__ (components/crawler.py:8-12) and
\* crawler.py:16-18, max_retries left at its default
Run_Construct ==
    /\ r_pc = "construct"
    /\ crawler_class = "ScrapperFirstCrawler"
    /\ date_ranges_set' = (Len(date_ranges_arg) > 0)
    /\ date_ranges' = date_ranges_arg
    /\ original_dates_count' = Len(date_ranges_arg)
    /\ max_retries' = DefaultMaxRetries
    /\ attempt' = 0
    /\ handed' = [u \in Range(date_ranges_arg) |-> 0]
    /\ c_pc' = "held"
    /\ r_pc' = "loop"
    /\ UNCHANGED <<dates_q, dates_to_crawl, attempts_made, c_fault, c_result, c_slept,
                   c_faults_before, c_unclosed>>
    /\ UNCHANGED <<crawler_class, shuffle_dates, date_ranges_arg, events_list, events_k,
                   run_inserted, run_updated, run_error, r_fault, r_log,
                   r_batches, r_sleeps, r_upsert_faults, r_totals>>
    /\ UNCHANGED <<dateVars, forexVars, upsertVars, barVars, procVars>>

\* line 52, "while not crawler.iteration_done": the property raises
\* AttributeError when _date_ranges was never assigned; else the loop body
\* starts with the call of crawl() of line 53 (the test is never false: the
\* list is not empty at the first test, and line 66 leaves the loop before
\* the test sees an empty one)
Run_LoopTest ==
    /\ r_pc = "loop"
    /\ IF ~date_ranges_set
       THEN /\ r_fault' = "AttributeError"
            /\ r_pc' = "raised"
            /\ c_pc' = c_pc
       ELSE /\ r_fault' = r_fault
            /\ r_pc' = IF IterationDone THEN "returned" ELSE "crawl"
            /\ c_pc' = IF IterationDone THEN c_pc ELSE "idle"
    /\ UNCHANGED <<date_ranges_set, date_ranges, original_dates_count, max_retries,
                   attempt, dates_q, dates_to_crawl, handed, attempts_made, c_fault,
                   c_result, c_slept, c_faults_before, c_unclosed>>
    /\ UNCHANGED <<crawler_class, shuffle_dates, date_ranges_arg, events_list, events_k,
                   run_inserted, run_updated, run_error, r_log, r_batches,
                   r_sleeps, r_upsert_faults, r_totals>>
    /\ UNCHANGED <<dateVars, forexVars, upsertVars, barVars, procVars>>

\* lines 53-54: crawl() returned the record-sets; the counters are set to 0
Run_CrawlReturned ==
    /\ r_pc = "crawl"
    /\ c_pc = "returned"
    /\ events_list' = c_result
    /\ events_k' = 0
    /\ run_inserted' = 0
    /\ run_updated' = 0
    /\ run_error' = 0
    /\ r_batches' = r_batches + 1
    /\ r_pc' = "upsert"
    /\ c_pc' = "held"
    /\ dates_q' = 0
    /\ dates_to_crawl' = <<>>
    /\ c_fault' = ""
    /\ c_result' = <<>>
    /\ c_slept' = 0
    /\ c_unclosed' = 0
    /\ UNCHANGED <<date_ranges_set, date_ranges, original_dates_count, max_retries,
                   attempt, handed, attempts_made, c_faults_before>>
    /\ UNCHANGED <<crawler_class, shuffle_dates, date_ranges_arg, r_fault,
                   r_log, r_sleeps, r_upsert_faults, r_totals>>
    /\ UNCHANGED <<dateVars, forexVars, upsertVars, barVars, procVars>>

\* a variant of Run_CrawlRaised: the exception is caught, the batch counts
\* as an empty one and the loop goes on
Run_CrawlRaised_Swallowed ==
    /\ r_pc = "crawl"
    /\ c_pc = "raised"
    /\ events_list' = <<>>
    /\ events_k' = 0
    /\ r_pc' = "upsert"
    /\ c_pc' = "held"
    /\ dates_q' = 0
    /\ dates_to_crawl' = <<>>
    /\ c_fault' = ""
    /\ c_result' = <<>>
    /\ c_slept' = 0
    /\ c_unclosed' = 0
    /\ UNCHANGED <<date_ranges_set, date_ranges, original_dates_count, max_retries,
                   attempt, handed, attempts_made, c_faults_before>>
    /\ UNCHANGED <<crawler_class, shuffle_dates, date_ranges_arg, run_inserted,
                   run_updated, run_error, r_fault, r_log, r_batches, r_sleeps,
                   r_upsert_faults, r_totals>>
    /\ UNCHANGED <<dateVars, forexVars, upsertVars, barVars, procVars>>

\* line 53: crawl() raised (_safe_crawl, crawler.py:46); nothing in
\* update_for_dates catches it
Run_CrawlRaised ==
    /\ r_pc = "crawl"
    /\ c_pc = "raised"
    /\ r_fault' = c_fault
    /\ r_pc' = "raised"
    /\ c_pc' = "held"
    /\ dates_q' = 0
    /\ dates_to_crawl' = <<>>
    /\ c_fault' = ""
    /\ c_result' = <<>>
    /\ c_slept' = 0
    /\ c_unclosed' = 0
    /\ UNCHANGED <<date_ranges_set, date_ranges, original_dates_count, max_retries,
                   attempt, handed, attempts_made, c_faults_before>>
    /\ UNCHANGED <<crawler_class, shuffle_dates, date_ranges_arg, events_list, events_k,
                   run_inserted, run_updated, run_error, r_log, r_batches,
                   r_sleeps, r_upsert_faults, r_totals>>
    /\ UNCHANGED <<dateVars, forexVars, upsertVars, barVars, procVars>>

\* upsert_events(events), lines 24-42, as one step: the stores it can leave
\* and the counters it returns with them, when update_one faults at most
\* `faults` times (a call of update_one that raises has written nothing)
RECURSIVE UpsertEventsFrom(_, _, _)
UpsertEventsFrom(st, events, faults) ==
    IF events = <<>>
    THEN {[store |-> st, inserted |-> 0, updated |-> 0, error |-> 0]}
    ELSE LET e == Head(events)
             written == UpdateOne(st, UpsertFilter(e), ModelDump(e))
             returns ==
                 UNION {{[o EXCEPT !.inserted = @ + CountResult(res)[1],
                                   !.updated = @ + CountResult(res)[2]]
                         : o \in UpsertEventsFrom(res.store, Tail(events), faults)}
                        : res \in written}
             raises ==
                 IF faults = 0 THEN {}
                 ELSE {[o EXCEPT !.error = @ + 1]
                       : o \in UpsertEventsFrom(st, Tail(events), faults - 1)}
         IN  returns \cup raises

\* lines 56-60: one turn of the for loop
Run_Upsert ==
    /\ r_pc = "upsert"
    /\ events_k < Len(events_list)
    /\ \E o \in UpsertEventsFrom(store, EventsOf(events_list[events_k + 1][1]),
                                 MaxUpsertFaults - r_upsert_faults) :
          /\ store' = o.store
          /\ run_inserted' = run_inserted + o.inserted
          /\ run_updated' = run_updated + o.updated
          /\ run_error' = run_error + o.error
          /\ r_upsert_faults' = r_upsert_faults + o.error
          /\ r_totals' = <<r_totals[1] + o.inserted, r_totals[2] + o.updated,
                           r_totals[3] + o.error>>
    /\ indexes_ensured' = TRUE
    /\ events_k' = events_k + 1
    /\ UNCHANGED <<crawler_class, shuffle_dates, date_ranges_arg, events_list,
                   r_pc, r_fault, r_log, r_batches, r_sleeps>>
    /\ UNCHANGED upsertLocals
    /\ UNCHANGED <<dateVars, crawlerVars, forexVars, barVars, procVars>>

\* line 57 with line 25: ensure_indexes raises, outside every try; the
\* locals of update_for_dates are gone with the exception
Run_UpsertIndexFault ==
    /\ r_pc = "upsert"
    /\ events_k < Len(events_list)
    /\ r_fault' = "IndexFault"
    /\ r_pc' = "raised"
    /\ events_list' = <<>>
    /\ events_k' = 0
    /\ run_inserted' = 0
    /\ run_updated' = 0
    /\ run_error' = 0
    /\ UNCHANGED <<crawler_class, shuffle_dates, date_ranges_arg, r_log, r_batches,
                   r_sleeps, r_upsert_faults, r_totals>>
    /\ UNCHANGED <<dateVars, crawlerVars, forexVars, upsertVars, barVars, procVars>>

\* a variant of LeaveLoop: the loop is left only by the test of line 52
LeaveLoop_Never == FALSE
\* line 66: if crawler.iteration_done
LeaveLoop == IterationDone

\* lines 62-67: the counters and the percentage are logged and the loop is
\* left when the crawler is done; update_for_dates then ends without a
\* return statement (events_list and the counters are not read again before
\* lines 53-54 assign them anew)
Run_LogBatch ==
    /\ r_pc = "upsert"
    /\ events_k = Len(events_list)
    /\ r_log' = r_log \o << <<"New, Updated, Errors", run_inserted, run_updated, run_error>>,
                            <<"Done", PercentageDone>> >>
    /\ r_pc' = IF LeaveLoop THEN "returned" ELSE "sleep"
    /\ events_list' = <<>>
    /\ events_k' = 0
    /\ run_inserted' = 0
    /\ run_updated' = 0
    /\ run_error' = 0
    /\ UNCHANGED <<crawler_class, shuffle_dates, date_ranges_arg, r_fault, r_batches,
                   r_sleeps, r_upsert_faults, r_totals>>
    /\ UNCHANGED <<dateVars, crawlerVars, forexVars, upsertVars, barVars, procVars>>

\* lines 63 and 69-70: the wait of random.randint(2, 8) seconds is logged
\* and slept (the model has no clock), then line 52 again
Run_Sleep ==
    /\ r_pc = "sleep"
    /\ r_log' = Append(r_log, <<"Waiting">>)
    /\ r_sleeps' = r_sleeps + 1
    /\ r_pc' = "loop"
    /\ UNCHANGED <<crawler_class, shuffle_dates, date_ranges_arg, events_list, events_k,
                   run_inserted, run_updated, run_error, r_fault, r_batches,
                   r_upsert_faults, r_totals>>
    /\ UNCHANGED <<dateVars, crawlerVars, forexVars, upsertVars, barVars, procVars>>

\* cli.py:40-57, the wrapper of the command: it logs the error and raises it
\* again, or logs that the command completed
Command_End ==
    /\ r_pc \in {"returned", "raised"}
    /\ r_log' = Append(r_log, IF r_pc = "raised" THEN <<"Error during command", r_fault>>
                                                 ELSE <<"completed successfully">>)
    /\ r_pc' = "exit"
    /\ UNCHANGED <<crawler_class, shuffle_dates, date_ranges_arg, events_list, events_k,
                   run_inserted, run_updated, run_error, r_fault, r_batches,
                   r_sleeps, r_upsert_faults, r_totals>>
    /\ UNCHANGED <<dateVars, crawlerVars, forexVars, upsertVars, barVars, procVars>>

RunNext ==
    \/ Run_Shuffle
    \/ Run_Construct_TypeError
    \/ Run_Construct
    \/ Run_LoopTest
    \/ Crawl_TakeAll
    \/ Crawl_Sample
    \/ StartCrawling_Ok
    \/ StartCrawling_Fault
    \/ Run_CrawlReturned
    \/ Run_CrawlRaised
    \/ Run_Upsert
    \/ Run_UpsertIndexFault
    \/ Run_LogBatch
    \/ Run_Sleep
    \/ Command_End

(***************************************************************************)
(* ForexDataClient._save and _save_chunk  (forex_data/client.py:43-65)     *)
(***************************************************************************)
\* the natural keys (ticker, timestamp) of the bars handed to _save
BarKeys == {<<"EURUSD", 1>>, <<"EURUSD", 2>>, <<"GBPUSD", 1>>}

\* the quotes of a bar: open, high, low, close and volume
Quotes ==
    { [open |-> 10, high |-> 12, low |-> 9, close |-> 11, volume |-> 100],
      [open |-> 10, high |-> 13, low |-> 9, close |-> 12, volume |-> 150] }

\* ForexTicker (repository/models.py:86-96) after model_dump()
Bar(key, q) ==
    [ ticker |-> key[1], timestamp |-> key[2], open |-> q.open, high |-> q.high,
      low |-> q.low, close |-> q.close, volume |-> q.volume ]

BarPool == {Bar(k, q) : k \in BarKeys, q \in Quotes}

BarKey(d) == <<d.ticker, d.timestamp>>

\* the lists handed to _save: bars of distinct keys, as one download has
BarLists ==
    {list \in UNION {[1..n -> BarPool] : n \in 1..MaxBars} :
        \A i, j \in DOMAIN list : BarKey(list[i]) = BarKey(list[j]) => i = j}

\* lines 55-59: the chunks handed to _save_chunk, one after the other
Chunks(list) ==
    IF Len(list) > ChunkSize
    THEN [i \in 1..((Len(list) + ChunkSize - 1) \div ChunkSize) |->
             SubSeq(list, (i - 1) * ChunkSize + 1,
                    IF i * ChunkSize < Len(list) THEN i * ChunkSize ELSE Len(list))]
    ELSE <<list>>

\* the collection's insert_many(documents, ordered=False), which is not part
\* of the sources: every document is inserted as a new one, but for the
\* documents whose key a unique index finds in the collection, which are
\* rejected and reported together (BulkWriteError) after the others went in
RECURSIVE InsertMany(_, _, _)
InsertMany(st, documents, unique) ==
    IF documents = <<>>
    THEN [store |-> st, rejected |-> 0]
    ELSE LET d == Head(documents)
             taken == unique /\ \E x \in Stored(st) : BarKey(x) = BarKey(d)
             rest == InsertMany(IF taken THEN st ELSE [st EXCEPT ![d] = @ + 1],
                                Tail(documents), unique)
         IN  [rest EXCEPT !.rejected = @ + (IF taken THEN 1 ELSE 0)]

RECURSIVE Latest(_, _)
Latest(latest, documents) ==
    IF documents = <<>> THEN latest
    ELSE Latest([latest EXCEPT ![BarKey(Head(documents))] = Some(Head(documents))],
                Tail(documents))

BarsOff ==
    /\ bars = <<>>
    /\ unique_index = FALSE
    /\ forex_tickers_list = <<>>
    /\ chunks = <<>>
    /\ b_pc = "off"
    /\ b_saves = 0
    /\ b_latest = <<>>

\* an empty collection and a client that has not saved yet
BarsInit ==
    /\ bars = [d \in BarPool |-> 0]
    /\ unique_index \in BOOLEAN
    /\ forex_tickers_list = <<>>
    /\ chunks = <<>>
    /\ b_pc = "idle"
    /\ b_saves = 0
    /\ b_latest = [k \in BarKeys |-> None]

\* _save(forex_tickers_list), lines 53-59: ensure_indexes, then the chunks
Save_Begin ==
    /\ b_pc = "idle"
    /\ b_saves < MaxSaves
    /\ b_saves' = b_saves + 1
    /\ \E list \in BarLists :
          /\ forex_tickers_list' = list
          /\ chunks' = Chunks(list)
    /\ b_pc' = "chunks"
    /\ UNCHANGED <<bars, unique_index, b_latest>>
    /\ UNCHANGED notBarVars

\* _save_chunk(documents), lines 62-63: insert_many returns
SaveChunk_Inserted ==
    /\ b_pc = "chunks"
    /\ chunks # <<>>
    /\ LET res == InsertMany(bars, Head(chunks), unique_index)
       IN  /\ res.rejected = 0
           /\ bars' = res.store
    /\ b_latest' = Latest(b_latest, Head(chunks))
    /\ chunks' = Tail(chunks)
    /\ UNCHANGED <<unique_index, forex_tickers_list, b_pc, b_saves>>
    /\ UNCHANGED notBarVars

\* _save_chunk(documents), lines 62-65: insert_many raises BulkWriteError for
\* the documents it rejected; handle_insert_error, which is not part of the
\* sources, returns or raises
SaveChunk_BulkWriteError ==
    /\ b_pc = "chunks"
    /\ chunks # <<>>
    /\ LET res == InsertMany(bars, Head(chunks), unique_index)
       IN  /\ res.rejected > 0
           /\ bars' = res.store
    /\ b_latest' = Latest(b_latest, Head(chunks))
    /\ chunks' = Tail(chunks)
    /\ b_pc' \in {"chunks", "raised"}
    /\ UNCHANGED <<unique_index, forex_tickers_list, b_saves>>
    /\ UNCHANGED notBarVars

\* _save, line 59: every chunk is saved
Save_Return ==
    /\ b_pc = "chunks"
    /\ chunks = <<>>
    /\ b_pc' = "returned"
    /\ UNCHANGED <<bars, unique_index, forex_tickers_list, chunks, b_saves, b_latest>>
    /\ UNCHANGED notBarVars

\* the call is over (by return or by raise): its locals are gone
Save_End ==
    /\ b_pc \in {"returned", "raised"}
    /\ b_pc' = "idle"
    /\ forex_tickers_list' = <<>>
    /\ chunks' = <<>>
    /\ UNCHANGED <<bars, unique_index, b_saves, b_latest>>
    /\ UNCHANGED notBarVars

BarsNext ==
    \/ Save_Begin
    \/ SaveChunk_Inserted
    \/ SaveChunk_BulkWriteError
    \/ Save_Return
    \/ Save_End

(***************************************************************************)
(* Two processes upserting into one collection                             *)
(* (core/components/economic_events/client.py:24-42, run by two processes  *)
(* on the same store)                                                      *)
(***************************************************************************)
Procs == {1, 2}

\* the natural keys the two processes write
ProcKeys == {FirstKey, <<"CPI m/m", 1, "Euro Area">>}

\* the events of process p: every key with every value of actual, validated
\* by the process itself (updated_at stands for the process)
ProcEvents(p) == {Event(k, a, p) : k \in ProcKeys, a \in Actuals}

ProcDocs == {ModelDump(e) : e \in ProcEvents(1) \cup ProcEvents(2)}

\* the lists of events a process is called with
ProcLists(p) == UNION {[1..n -> ProcEvents(p)] : n \in 0..MaxProcEvents}

ProcsOff ==
    /\ procs = <<>>
    /\ last_write = <<>>

\* an empty collection, and each process about to call upsert_events with a
\* list of its own
ProcsInit ==
    /\ procs \in [Procs -> [events : UNION {ProcLists(p) : p \in Procs}, i : {0}, inserted : {0},
                             updated : {0}, error : {0}, pc : {"call"}, written : {{}}]]
    /\ \A p \in Procs : procs[p].events \in ProcLists(p)
    /\ last_write = [k \in ProcKeys |-> None]
    /\ store = [d \in ProcDocs |-> 0]
    /\ indexes_ensured = FALSE
    /\ events_n = 0
    /\ events_i = 0
    /\ event = None
    /\ inserted = 0
    /\ updated = 0
    /\ error = 0
    /\ u_pc = "off"
    /\ u_calls = 0
    /\ u_faults = 0
    /\ u_last = NoTurn

\* lines 25-26 in process p: ensure_indexes, the counters at 0
Proc_Begin(p) ==
    /\ procs # <<>>
    /\ procs[p].pc = "call"
    /\ indexes_ensured' = TRUE
    /\ procs' = [procs EXCEPT ![p].pc = "loop"]
    /\ UNCHANGED <<store, last_write, upsertLocals>>
    /\ UNCHANGED <<dateVars, crawlerVars, forexVars, runVars, barVars>>

\* lines 27-33, 37-41 in process p: one turn of the loop, update_one returns;
\* the store applies it as one step
Proc_Upsert(p) ==
    /\ procs # <<>>
    /\ procs[p].pc = "loop"
    /\ procs[p].i < Len(procs[p].events)
    /\ LET e == procs[p].events[procs[p].i + 1]
       IN  \E res \in UpdateOne(store, UpsertFilter(e), ModelDump(e)) :
              /\ store' = res.store
              /\ last_write' = [last_write EXCEPT ![NaturalKey(e)] = Some(ModelDump(e))]
              /\ procs' = [procs EXCEPT ![p].i = @ + 1,
                                        ![p].inserted = @ + CountResult(res)[1],
                                        ![p].updated = @ + CountResult(res)[2],
                                        ![p].written = @ \cup {ModelDump(e)}]
    /\ UNCHANGED <<indexes_ensured, upsertLocals>>
    /\ UNCHANGED <<dateVars, crawlerVars, forexVars, runVars, barVars>>

\* lines 27-36 in process p: one turn of the loop, update_one raises and has
\* written nothing; the fault is counted
Proc_UpsertFault(p) ==
    /\ procs # <<>>
    /\ procs[p].pc = "loop"
    /\ procs[p].i < Len(procs[p].events)
    /\ procs' = [procs EXCEPT ![p].i = @ + 1, ![p].error = @ + 1]
    /\ UNCHANGED <<store, last_write, indexes_ensured, upsertLocals>>
    /\ UNCHANGED <<dateVars, crawlerVars, forexVars, runVars, barVars>>

\* line 42 in process p
Proc_Return(p) ==
    /\ procs # <<>>
    /\ procs[p].pc = "loop"
    /\ procs[p].i = Len(procs[p].events)
    /\ procs' = [procs EXCEPT ![p].pc = "returned"]
    /\ UNCHANGED <<store, last_write, indexes_ensured, upsertLocals>>
    /\ UNCHANGED <<dateVars, crawlerVars, forexVars, runVars, barVars>>

\* the processes run on their own: any of them takes the next step
ProcsNext ==
    \/ \E p \in Procs : Proc_Begin(p)
    \/ \E p \in Procs : Proc_Upsert(p)
    \/ \E p \in Procs : Proc_UpsertFault(p)
    \/ \E p \in Procs : Proc_Return(p)

(***************************************************************************)
(* Specifications: one part runs, the others stay off                      *)
(***************************************************************************)
InitDates == DatesInit /\ CrawlerOff /\ ForexOff /\ UpsertOff /\ RunOff /\ BarsOff /\ ProcsOff
SpecDates == InitDates /\ [][DatesNext]_vars

InitCrawler == DatesOff /\ CrawlerInit /\ ForexOff /\ UpsertOff /\ RunOff /\ BarsOff /\ ProcsOff
SpecCrawler == InitCrawler /\ [][CrawlerNext]_vars

InitForex == DatesOff /\ CrawlerOff /\ ForexInit /\ UpsertOff /\ RunOff /\ BarsOff /\ ProcsOff
SpecForex == InitForex /\ [][ForexNext]_vars

InitUpsert == DatesOff /\ CrawlerOff /\ ForexOff /\ UpsertInit /\ RunOff /\ BarsOff /\ ProcsOff
SpecUpsert == InitUpsert /\ [][UpsertNext]_vars

InitRun == DatesOff /\ CrawlerOff /\ ForexOff /\ RunInit /\ BarsOff /\ ProcsOff
SpecRun == InitRun /\ [][RunNext]_vars

\* the command is one sequential coroutine that nothing suspends for good:
\* every call it makes (opening a session, a fetch, update_one, a sleep)
\* returns or raises, so a step that is possible is eventually taken
SpecRunFair == InitRun /\ [][RunNext]_vars /\ WF_vars(RunNext)

InitBars == DatesOff /\ CrawlerOff /\ ForexOff /\ UpsertOff /\ RunOff /\ BarsInit /\ ProcsOff
SpecBars == InitBars /\ [][BarsNext]_vars

InitProcs == DatesOff /\ CrawlerOff /\ ForexOff /\ RunOff /\ BarsOff /\ ProcsInit
SpecProcs == InitProcs /\ [][ProcsNext]_vars

\* one of the two crawlers is constructed and run
InitCrawlers == InitCrawler \/ InitForex
SpecCrawlers == InitCrawlers /\ [][CrawlerNext \/ ForexNext]_vars

(***************************************************************************)
(* The partition of the work domain                                        *)
(***************************************************************************)
\* C1: while crawl() is called until iteration_done, every original date
\* range has been put in a batch exactly once if it is no longer in
\* _date_ranges and never if it still is; so the batches are pairwise
\* disjoint, no batch repeats a unit, and once iteration_done is true every
\* original unit has been handed out exactly once.
C1_Partition ==
    date_ranges_set =>
        /\ \A u \in DOMAIN handed :
              handed[u] = IF InList(u, date_ranges) THEN 0 ELSE 1
        /\ Distinct(dates_to_crawl)
        /\ Range(dates_to_crawl) \subseteq DOMAIN handed
        /\ IterationDone => \A u \in DOMAIN handed : handed[u] = 1

\* a domain larger than one batch is exhausted: a sampled batch and at least
\* one more batch were drawn
C1_Witness ==
    /\ date_ranges_set
    /\ c_pc = "idle"
    /\ IterationDone
    /\ original_dates_count > TakeAllDates
    /\ \A u \in DOMAIN handed : handed[u] = 1

(***************************************************************************)
(* The retry bound                                                         *)
(***************************************************************************)
\* C2: _safe_crawl never makes more than max_retries attempts for a batch,
\* and when every attempt faulted it has made exactly max_retries attempts
\* and ends by raising the fault.
C2_RetryBound ==
    /\ attempts_made <= max_retries
    /\ (c_pc \in {"returned", "returned_none", "raised"} /\ attempts_made = attempt)
          => (c_pc = "raised" /\ attempts_made = max_retries)

(***************************************************************************)
(* The size of a batch and the take-all rule                               *)
(***************************************************************************)
\* C7 as stated: every batch drawn has between 2 and 5 date ranges
\* (EconomicEventsCrawler) or between 3 and 6 symbols (ForexDataCSVCrawler).
C7_AsStated ==
    /\ c_pc = "safe_crawl" => Len(dates_to_crawl) \in 2..5
    /\ f_pc = "session" => Len(tickers_to_crawl) \in 3..6

\* C7 as amended: every batch drawn has between 1 and 5 date ranges, or
\* between 1 and 6 symbols; a batch below the lower bound of the random size
\* (2 date ranges, 3 symbols) is the whole remainder, so it leaves the domain
\* exhausted, and a batch that leaves units behind has between 2 and 5 date
\* ranges, or between 3 and 6 symbols.
C7_BatchSize ==
    /\ c_pc = "safe_crawl" =>
          /\ Len(dates_to_crawl) \in 1..5
          /\ Len(dates_to_crawl) < 2 => Len(date_ranges) = 0
          /\ Len(date_ranges) > 0 => Len(dates_to_crawl) \in 2..5
    /\ f_pc = "session" =>
          /\ Len(tickers_to_crawl) \in 1..6
          /\ Len(tickers_to_crawl) < 3 => Len(tickers) = 0
          /\ Len(tickers) > 0 => Len(tickers_to_crawl) \in 3..6

\* six date ranges, five of them sampled: the last batch is a single range
C7_Witness ==
    /\ c_pc = "safe_crawl"
    /\ original_dates_count = 6
    /\ Len(dates_to_crawl) = 1
    /\ Len(date_ranges) = 0

\* the draw of a batch of date ranges, as a step
C8_DatesDraw ==
    (c_pc = "idle" /\ c_pc' = "safe_crawl") =>
        IF Len(date_ranges) <= 5
        THEN /\ dates_to_crawl' = date_ranges
             /\ date_ranges' = <<>>
        ELSE /\ dates_q' \in 2..5
             /\ Len(dates_to_crawl') = dates_q'
             /\ Distinct(dates_to_crawl')
             /\ Range(dates_to_crawl') \subseteq Range(date_ranges)
             /\ Range(date_ranges') = Range(date_ranges) \ Range(dates_to_crawl')
             /\ Len(date_ranges') = Len(date_ranges) - dates_q'
             /\ Len(date_ranges') > 0

\* the draw of a batch of symbols, as a step
C8_TickersDraw ==
    (f_pc = "loop" /\ f_pc' = "session") =>
        IF Len(tickers) <= 6
        THEN /\ tickers_to_crawl' = tickers
             /\ tickers' = <<>>
        ELSE /\ tickers_number' \in 3..6
             /\ Len(tickers_to_crawl') = tickers_number'
             /\ Distinct(tickers_to_crawl')
             /\ Range(tickers_to_crawl') \subseteq Range(tickers)
             /\ Range(tickers') = Range(tickers) \ Range(tickers_to_crawl')
             /\ Len(tickers') = Len(tickers) - tickers_number'
             /\ Len(tickers') > 0

\* C8: a draw with at most max_batch units remaining (5 date ranges, 6
\* symbols) takes the whole remainder as the batch and leaves the domain
\* exhausted; a draw with more units remaining takes exactly k different
\* units of the remainder, k in min_batch..max_batch, removes exactly those
\* k units and leaves the domain not exhausted.
C8_TakeAllRule == [][C8_DatesDraw /\ C8_TickersDraw]_vars

\* eight symbols: the first draw sampled five of them and three remain
C8_Witness ==
    /\ f_pc = "session"
    /\ original_tickers_count = 8
    /\ Len(tickers_to_crawl) = 5
    /\ Len(tickers) = 3

(***************************************************************************)
(* The windows of create_date_ranges                                       *)
(***************************************************************************)
\* the dates the call works with: the arguments, or the documented defaults
\* (five years of 52 weeks before today, and today)
C9_Start == IF start_arg = None THEN today - 7 * 260 ELSE start_arg[1]
C9_End == IF end_arg = None THEN today ELSE end_arg[1]

\* ceil((end - start) / 7) for start < end
C9_Count == IF C9_Start < C9_End THEN (C9_End - C9_Start + 6) \div 7 ELSE 0

\* C9: create_date_ranges(start, end) returns the windows (start + 7i,
\* start + 7i + 6) for i = 0 .. n-1, n = ceil((end - start) / 7), in
\* increasing order; every day of [start, end) lies in a window, every window
\* spans at most 7 days and starts before end; for start >= end the list is
\* empty.
C9_Windows ==
    cdr_pc = "done" =>
        /\ Len(date_pairs) = C9_Count
        /\ \A i \in 1..Len(date_pairs) :
              /\ date_pairs[i] = <<C9_Start + 7 * (i - 1), C9_Start + 7 * (i - 1) + 6>>
              /\ date_pairs[i][2] - date_pairs[i][1] + 1 <= 7
              /\ date_pairs[i][1] < C9_End
        /\ \A i \in 1..(Len(date_pairs) - 1) : date_pairs[i][1] < date_pairs[i + 1][1]
        /\ \A d \in C9_Start..(C9_End - 1) :
              LET i == (d - C9_Start) \div 7 + 1
              IN  /\ i <= Len(date_pairs)
                  /\ date_pairs[i][1] <= d
                  /\ d <= date_pairs[i][2]
        /\ C9_Start >= C9_End => date_pairs = <<>>

\* a call with both dates given that returns several windows, the last of
\* them reaching past end
C9_Witness ==
    /\ cdr_pc = "done"
    /\ start_arg # None
    /\ end_arg # None
    /\ Len(date_pairs) >= 2
    /\ date_pairs[Len(date_pairs)][2] > end_arg[1]

\* C10 as stated: every two consecutive windows overlap by exactly one day,
\* the last day of window i being the first day of window i+1.
C10_AsStated ==
    cdr_pc = "done" =>
        \A i \in 1..(Len(date_pairs) - 1) : date_pairs[i][2] = date_pairs[i + 1][1]

\* C10 as amended: every two consecutive windows are adjacent and share no
\* day, the first day of window i+1 being the day after the last day of
\* window i.
C10_Adjacent ==
    cdr_pc = "done" =>
        \A i \in 1..(Len(date_pairs) - 1) :
            /\ date_pairs[i + 1][1] = date_pairs[i][2] + 1
            /\ {d \in date_pairs[i][1]..date_pairs[i][2] :
                    d \in date_pairs[i + 1][1]..date_pairs[i + 1][2]} = {}

\* a returned list of three windows
C10_Witness ==
    /\ cdr_pc = "done"
    /\ Len(date_pairs) = 3

(***************************************************************************)
(* upsert_events and the store                                             *)
(***************************************************************************)
\* C3: whatever lists a single writer upserts, the store holds at most one
\* document for each natural key (title, timestamp, subject.name).
C3_OneDocumentPerKey ==
    u_pc # "off" =>
        /\ \A d \in DOMAIN store : store[d] <= 1
        /\ \A d1, d2 \in Stored(store) : NaturalKey(d1) = NaturalKey(d2) => d1 = d2

\* an event whose key was stored before has been delivered again, by a
\* second call, and the store still holds one document
C3_Witness ==
    /\ u_pc = "loop"
    /\ u_calls = 2
    /\ events_i >= 1
    /\ ~u_last.faulted
    /\ u_last.prior # {}
    /\ Cardinality(Stored(store)) = 1

\* a turn of the loop in which update_one did not raise
C4_Turn ==
    /\ u_pc = "loop"
    /\ events_i' = events_i + 1
    /\ error' = error

\* the store after the turn holds exactly one document with the key of the
\* event, and its other fields are those of the event
C4_Reflects(e, st) ==
    /\ Cardinality(WithKeyOf(e, st)) = 1
    /\ \A d \in WithKeyOf(e, st) :
          /\ st[d] = 1
          /\ d.actual = e.actual
          /\ d.subject.currency = e.subject.currency
          /\ d.created_at = e.created_at
          /\ d.updated_at = e.updated_at

\* C4: upserting an event whose natural key is not stored counts
\* (inserted 1, updated 0, errored 0); upserting an event whose key is stored
\* with a different value of actual counts (inserted 0, updated 1, errored 0)
\* and leaves the stored document with the fields of that second write.
C4_InsertThenUpdate ==
    [][C4_Turn =>
         LET e == event'[1]
             prior == WithKeyOf(e, store)
         IN  /\ prior = {} =>
                   /\ inserted' = inserted + 1
                   /\ updated' = updated
                   /\ events_n = 1 => <<inserted', updated', error'>> = <<1, 0, 0>>
                   /\ C4_Reflects(e, store')
             /\ (prior # {} /\ \A d \in prior : d.actual # e.actual) =>
                   /\ inserted' = inserted
                   /\ updated' = updated + 1
                   /\ events_n = 1 => <<inserted', updated', error'>> = <<0, 1, 0>>
                   /\ C4_Reflects(e, store')]_vars

\* the second of two calls with one event each: the key was stored with
\* another value of actual, and the call counts one update
C4_Witness ==
    /\ u_pc = "returned"
    /\ u_calls = 2
    /\ events_n = 1
    /\ ~u_last.faulted
    /\ \E d \in u_last.prior : d.actual # event[1].actual
    /\ <<inserted, updated, error>> = <<0, 1, 0>>
    /\ store[ModelDump(event[1])] = 1

\* the fields of the canonical record
C5_Canonical(d) == <<d.title, d.timestamp, d.subject, d.actual>>

\* C5 as stated: the first ingestion of a canonical record counts one insert
\* and a second ingestion of the same canonical record counts one update.
C5_AsStated ==
    [][C4_Turn =>
         LET e == event'[1]
             prior == WithKeyOf(e, store)
         IN  /\ prior = {} => (inserted' = inserted + 1 /\ updated' = updated)
             /\ (prior # {} /\ \A d \in prior : C5_Canonical(d) = C5_Canonical(e)) =>
                   (inserted' = inserted /\ updated' = updated + 1)]_vars

\* C5 as amended: the first ingestion of a canonical record counts one
\* insert; a second ingestion of the same canonical record never counts an
\* insert, counts one update if its document differs from the stored one
\* (another updated_at) and none if it is identical, and leaves the stored
\* document with the fields of the second write.
C5_Idempotent ==
    [][C4_Turn =>
         LET e == event'[1]
             prior == WithKeyOf(e, store)
         IN  /\ prior = {} => (inserted' = inserted + 1 /\ updated' = updated)
             /\ (prior # {} /\ \A d \in prior : C5_Canonical(d) = C5_Canonical(e)) =>
                   /\ inserted' = inserted
                   /\ updated' = updated + (IF \E d \in prior : d.updated_at # e.updated_at
                                            THEN 1 ELSE 0)
                   /\ C4_Reflects(e, store')]_vars

\* the same record, stamped alike, was ingested a second time and counted
\* neither as an insert nor as an update
C5_Witness ==
    /\ u_pc = "returned"
    /\ events_n = 1
    /\ ~u_last.faulted
    /\ u_last.prior = {ModelDump(event[1])}
    /\ <<inserted, updated, error>> = <<0, 0, 0>>
    /\ store[ModelDump(event[1])] = 1

\* C6: a fault of update_one is counted as errored and does not end the
\* loop: every record of the list is still attempted, the fault does not
\* leave upsert_events, and inserted + updated + errored never exceeds the
\* number of records.
C6_FaultsAreCounted ==
    /\ error = u_faults
    /\ inserted + updated + error <= events_i
    /\ events_i <= events_n
    /\ u_pc = "returned" => events_i = events_n
    /\ u_pc = "raised" => (u_faults = 0 /\ events_i = 0)
    /\ u_last.faulted => u_pc \in {"loop", "returned"}

\* a list of two records: the first faulted, the second was inserted, and
\* the counters were returned
C6_Witness ==
    /\ u_pc = "returned"
    /\ events_n = 2
    /\ ~u_last.faulted
    /\ <<inserted, updated, error>> = <<1, 0, 1>>

(***************************************************************************)
(* The empty domain and the progress of a crawl                            *)
(***************************************************************************)
\* C11: a crawler constructed with an empty list of date ranges reports
\* iteration_done = true right after construction, and reading
\* iteration_done raises no fault.
C11_EmptyIsExhausted ==
    (c_pc # "off" /\ original_dates_count = 0) =>
        /\ date_ranges_set
        /\ IterationDone
        /\ c_pc # "attribute_error"

\* the progress of either crawler in a state
C12_State ==
    /\ date_ranges_set =>
          /\ Range(date_ranges) \subseteq DOMAIN handed
          /\ PercentageDone[2] > 0
          /\ 0 <= PercentageDone[1]
          /\ PercentageDone[1] <= PercentageDone[2]
          /\ (PercentageDone[1] = PercentageDone[2]) <=> IterationDone
    /\ (f_pc # "off" /\ original_tickers_count > 0) =>
          /\ Range(tickers) \subseteq DOMAIN f_handed
          /\ 0 <= FxPercentageDone[1]
          /\ FxPercentageDone[1] <= FxPercentageDone[2]
          /\ (FxPercentageDone[1] = FxPercentageDone[2]) <=> FxIterationDone

\* C12: on a non-empty domain the remaining units are original units and a
\* removed unit never comes back, so percentage_done lies in [0, 1], never
\* decreases, and is 1 exactly when iteration_done is true.
C12_Progress ==
    [][/\ C12_State
       /\ C12_State'
       /\ Range(date_ranges') \subseteq Range(date_ranges)
       /\ Range(tickers') \subseteq Range(tickers)
       /\ PercentageDone'[1] >= PercentageDone[1]
       /\ FxPercentageDone'[1] >= FxPercentageDone[1]]_vars

\* six date ranges after a first batch was drawn: the progress is strictly
\* between 0 and 1
C12_Witness ==
    /\ date_ranges_set
    /\ c_pc = "idle"
    /\ original_dates_count = 6
    /\ PercentageDone[1] > 0
    /\ PercentageDone[1] < PercentageDone[2]

(***************************************************************************)
(* Units that cannot be served                                             *)
(***************************************************************************)
\* C13: a ticker of a batch for which get_data raises
\* TickerNotAvailableException is skipped: the session of the batch fetches
\* every other ticker of the batch, in order, crawl() goes on with the next
\* batch, the attempt counter stays 0, and TickerNotAvailableException never
\* leaves crawl().
C13_SkipNotAbort ==
    [][/\ f_fault' # "TickerNotAvailableException"
       /\ f_attempt' = 0
       /\ (f_pc = "session" /\ f_pc' # "raised") =>
             /\ f_pc' = "loop"
             /\ f_sessions' = f_sessions + 1
             /\ Range(f_fetched') = Range(tickers_to_crawl) \ unavailable
             /\ \A i, j \in DOMAIN f_fetched' :
                   i < j => \E a, b \in DOMAIN tickers_to_crawl :
                               /\ a < b
                               /\ tickers_to_crawl[a] = f_fetched'[i]
                               /\ tickers_to_crawl[b] = f_fetched'[j]]_vars

\* eight tickers, one of them not available and drawn with the first batch:
\* that batch ended normally, the second batch was fetched in full, and
\* crawl() returned
C13_Witness ==
    /\ f_pc = "done"
    /\ original_tickers_count = 8
    /\ unavailable = {"GBPUSD"}
    /\ f_sessions = 2
    /\ f_fault = ""
    /\ f_fetched = tickers_to_crawl
    /\ f_handed["GBPUSD"] = 1

\* a fetch attempt of the batch that ended with the fault `kind`
C14_AttemptFaults(kind) ==
    /\ c_pc = "safe_crawl"
    /\ attempts_made' = attempts_made + 1
    /\ c_pc' # "returned"
    /\ c_fault' = kind

\* C14: a UnitNotAvailable fault raised while one date window of a batch is
\* fetched skips that window: the attempt ends by returning the record-sets
\* of the other windows of the batch, the attempt counter is not incremented
\* and the batch is not tried again.
C14_UnitSkipped ==
    [][attempts_made' = attempts_made + 1 =>
          /\ ~C14_AttemptFaults("UnitNotAvailable")
          /\ attempt' = attempt \/ c_fault' # "UnitNotAvailable"]_vars

\* C15: a record that fails canonicalization is dropped from the record-set
\* of its unit: the attempt ends by returning the record-sets of the batch,
\* the attempt counter is not incremented and the batch is not tried again.
C15_RecordDropped ==
    [][attempts_made' = attempts_made + 1 =>
          /\ ~C14_AttemptFaults("RecordInvalid")
          /\ attempt' = attempt \/ c_fault' # "RecordInvalid"]_vars

(***************************************************************************)
(* A run of update_for_dates                                               *)
(***************************************************************************)
\* the run has failed on a batch: a fault of _start_crawling has left
\* update_for_dates
C16_Failed == r_pc \in {"raised", "exit"} /\ r_fault \in FaultKinds

\* C16: when a batch has used up its retry budget (crawl() raises), the
\* fault leaves update_for_dates, and from then on no batch is drawn, no
\* fetch attempt is made and nothing is upserted: the crawler and the store
\* stay as they are, so the records upserted for earlier batches remain.
C16_FailedIsFinal ==
    [][/\ (r_pc = "crawl" /\ c_pc = "raised") =>
              /\ attempt = max_retries
              /\ r_pc' = "raised"
              /\ r_fault' = c_fault
              /\ r_fault' \in FaultKinds
              /\ store' = store
       /\ C16_Failed =>
              /\ C16_Failed'
              /\ r_fault' = r_fault
              /\ store' = store
              /\ date_ranges' = date_ranges
              /\ handed' = handed
              /\ attempts_made' = attempts_made
              /\ r_batches' = r_batches]_vars

\* the second batch failed after the records of the first were upserted
C16_Witness ==
    /\ r_pc = "exit"
    /\ r_fault \in FaultKinds
    /\ r_batches = 1
    /\ attempts_made = DefaultMaxRetries
    /\ Cardinality(Stored(store)) >= 2

\* C17: the counters of update_for_dates are run-level: the counters logged
\* after the n-th batch are the sums of what upsert_events returned for the
\* batches 1..n.
C17_RunLevelCounters ==
    (r_pc \in {"sleep", "returned"} /\ r_batches > 0) =>
        r_log[Len(r_log) - 1] = <<"New, Updated, Errors">> \o r_totals

\* C18: when a batch has failed, the percentage done of that moment is in
\* the log.
C18_FailureLogged ==
    C16_Failed => \E i \in DOMAIN r_log : r_log[i] = <<"Done", PercentageDone>>

\* the numbers of batches and of sleeps at each place of the loop
C19_Counted ==
    /\ r_pc \in {"loop", "crawl"} => r_sleeps = r_batches
    /\ r_pc \in {"upsert", "sleep"} => r_sleeps = r_batches - 1
    /\ r_pc = "returned" => r_batches >= 1 /\ r_sleeps = r_batches - 1

\* C19: there is one sleep between two consecutive batches and none after
\* the last: a run that ends without a fault after m >= 1 batches has slept
\* m - 1 times, and the loop is left, without a sleep, as soon as the batch
\* that emptied the domain is logged.
C19_OneSleepBetween ==
    [][/\ C19_Counted
       /\ C19_Counted'
       /\ r_batches' = r_batches + 1 => (r_batches = 0 \/ r_sleeps = r_batches)
       /\ (r_pc = "upsert" /\ r_pc' \notin {"upsert", "raised"}) =>
              /\ r_sleeps' = r_sleeps
              /\ r_pc' = IF IterationDone THEN "returned" ELSE "sleep"]_vars

\* two batches and one sleep
C19_Witness ==
    /\ r_pc = "returned"
    /\ r_batches = 2
    /\ r_sleeps = 1
    /\ IterationDone

(***************************************************************************)
(* Bars saved again                                                        *)
(***************************************************************************)
\* C20: saving a bar is an upsert on its key (ticker, timestamp): once a
\* call of _save has returned, the collection holds, for every key saved so
\* far, exactly one document, and its open, high, low, close and volume are
\* those of the bar saved last under that key.
C20_UpsertOnKey ==
    b_pc = "returned" =>
        \A k \in BarKeys :
            b_latest[k] # None =>
                /\ {d \in Stored(bars) : BarKey(d) = k} = {b_latest[k][1]}
                /\ bars[b_latest[k][1]] = 1

(***************************************************************************)
(* The batch between its draw and its end                                  *)
(***************************************************************************)
\* a call of crawl() has drawn its batch and is not over
C29_InCall == c_pc \in {"safe_crawl", "returned", "returned_none", "raised"}

\* C29: the units of a batch leave the domain when the batch is drawn,
\* before any is fetched: from the draw to the end of the call, through
\* every fetch attempt, no unit of the batch is among the remaining ones,
\* and percentage_done counts every unit handed out so far, also when the
\* batch has failed and none of its records was returned.
C29_RemovedAtDraw ==
    [][C29_InCall' =>
          /\ dates_to_crawl' # <<>>
          /\ Range(dates_to_crawl') \cap Range(date_ranges') = {}
          /\ PercentageDone'[1] = Cardinality({u \in DOMAIN handed' : handed'[u] > 0})
          /\ attempts_made' > attempts_made => date_ranges' = date_ranges
          /\ c_pc' = "raised" => (c_result' = <<>> /\ PercentageDone'[1] >= Len(dates_to_crawl'))]_vars

\* a sampled batch has failed: its units are gone, others remain
C29_Witness ==
    /\ c_pc = "raised"
    /\ attempts_made = DefaultMaxRetries
    /\ Len(dates_to_crawl) >= MinDatesBatch
    /\ ~IterationDone
    /\ PercentageDone[1] = Len(dates_to_crawl)
    /\ c_result = <<>>

(***************************************************************************)
(* A crawler with no retry budget                                          *)
(***************************************************************************)
\* C30: with max_retries = 0 the call of crawl() removes the batch it draws
\* from the domain, makes no fetch attempt and raises nothing: _safe_crawl
\* ends without a result.
C30_NoAttempt ==
    [][(max_retries = 0 /\ date_ranges_set /\ c_pc # c_pc') =>
          /\ c_pc' \in {"safe_crawl", "returned_none", "idle"}
          /\ attempts_made' = 0
          /\ c_fault' = ""
          /\ c_result' = <<>>
          /\ c_pc' = "safe_crawl" =>
                /\ dates_to_crawl' # <<>>
                /\ Range(dates_to_crawl') \subseteq Range(date_ranges)
                /\ Range(dates_to_crawl') \cap Range(date_ranges') = {}
          /\ c_pc = "safe_crawl" => c_pc' = "returned_none"]_vars

\* a sampled batch was consumed without a fetch
C30_Witness ==
    /\ max_retries = 0
    /\ c_pc = "returned_none"
    /\ Len(dates_to_crawl) >= MinDatesBatch
    /\ attempts_made = 0
    /\ Range(dates_to_crawl) \cap Range(date_ranges) = {}
    /\ ~IterationDone

(***************************************************************************)
(* Sessions of the attempts                                                *)
(***************************************************************************)
\* C22: every attempt of a batch opens one session and closes it when the
\* attempt ends, by success or by fault: no session is open during the
\* backoff between attempts, between batches or after the call.  As stated
\* it does not hold: an attempt whose __enter__ faults after the browser was
\* created leaves its session open
C22_SessionsClosed == c_unclosed = 0

(***************************************************************************)
(* Retries of a batch                                                      *)
(***************************************************************************)
\* C23: a retry repeats the same batch after a fixed delay: the step from a
\* faulted attempt to the next attempt sleeps RetryDelay once and leaves the
\* batch, the remaining date ranges, the original count and the units handed
\* out as they were; so the call has slept RetryDelay once for every pair of
\* consecutive attempts, and the record-sets returned are those of the
\* attempt that succeeded
C23_Waits == IF c_pc = "safe_crawl" THEN attempts_made ELSE attempts_made - 1
C23_FixedDelayRepeat ==
    [][/\ (c_pc = "safe_crawl" /\ c_pc' = "safe_crawl") =>
             /\ c_slept' = c_slept + RetryDelay
             /\ attempts_made' = attempts_made + 1
             /\ dates_to_crawl' = dates_to_crawl
             /\ date_ranges' = date_ranges
             /\ original_dates_count' = original_dates_count
             /\ handed' = handed
       /\ (c_pc' \in {"safe_crawl", "returned", "raised"} /\ attempts_made' > 0) =>
             c_slept' = RetryDelay * C23_Waits']_vars

\* a batch of at least two date ranges returned by the third attempt, after
\* two sleeps
C23_Witness ==
    /\ c_pc = "returned"
    /\ attempts_made = 3
    /\ c_slept = 2 * RetryDelay
    /\ Len(dates_to_crawl) >= MinDatesBatch
    /\ \A i \in DOMAIN c_result : c_result[i] = <<dates_to_crawl[i], 3>>

\* C24: the attempt counter is per batch: every call of crawl() starts its
\* batch with the counter at 0, whatever earlier calls left in it; while the
\* batch is attempted the counter is the number of faults of this batch
\* alone, and the call raises only after max_retries attempts of this batch
C24_PerBatchBudget ==
    [][/\ (c_pc = "idle" /\ c_pc' = "safe_crawl") => (attempt' = 0 /\ attempts_made' = 0)
       /\ c_pc' = "safe_crawl" => attempt' = attempts_made'
       /\ (c_pc = "safe_crawl" /\ c_pc' = "raised") =>
             (attempts_made' = max_retries /\ attempt' = max_retries)]_vars

\* a later batch that used the full default budget although an earlier
\* batch of the same crawler had caught faults
C24_Witness ==
    /\ c_pc = "raised"
    /\ c_faults_before
    /\ max_retries = DefaultMaxRetries
    /\ attempts_made = DefaultMaxRetries
    /\ \E u \in DOMAIN handed : handed[u] > 0 /\ u \notin Range(dates_to_crawl)

\* C25: a call of crawl() that returns a batch returns one record-set for
\* every date range of the batch, in the order of the batch, all fetched by
\* the attempt that succeeded; until then the call has no result
C25_OneRecordSetPerUnit ==
    /\ c_pc = "returned" =>
          /\ Len(c_result) = Len(dates_to_crawl)
          /\ \A i \in DOMAIN dates_to_crawl : c_result[i] = <<dates_to_crawl[i], attempts_made>>
    /\ c_pc \in {"safe_crawl", "raised", "returned_none"} => c_result = <<>>

\* a batch of at least two date ranges returned by an attempt that followed
\* a faulted one
C25_Witness ==
    /\ c_pc = "returned"
    /\ attempts_made > 1
    /\ Len(c_result) >= MinDatesBatch
    /\ c_result[1][1] # c_result[2][1]
    /\ c_result[1][2] = attempts_made

(***************************************************************************)
(* A source fault in the crawl of the tickers                              *)
(***************************************************************************)
\* C26: in the crawl of the tickers a SourceUnavailable fault of a session
\* is retried for the batch and is fatal only after max_retries attempts
\* (BaseCrawler's default): the crawl is left by the fault only with the
\* attempt counter at max_retries.  As stated it does not hold: crawl() has
\* no retry and the first fault leaves it
C26_RetriedThenFatal ==
    (f_pc = "raised" /\ f_fault = "SourceUnavailable") => f_attempt = DefaultMaxRetries

(***************************************************************************)
(* The construction of the crawler                                         *)
(***************************************************************************)
\* C27: update_for_dates constructs the crawler with the date ranges it was
\* handed as the work domain: the construction succeeds, and right after it
\* the remaining date ranges are the ones supplied (in the order line 48
\* left them) and the original count is their number.  As stated it does not
\* hold: with EconomicEventsCrawler the arguments are bound the other way
\* round and the construction raises
C27_DomainHandedOver ==
    [][r_pc = "construct" =>
          /\ r_pc' = "loop"
          /\ r_fault' = ""
          /\ date_ranges' = date_ranges_arg
          /\ original_dates_count' = Len(date_ranges_arg)]_vars

(***************************************************************************)
(* Termination of update_for_dates                                         *)
(***************************************************************************)
\* C28: update_for_dates on a non-empty list of distinct date ranges ends,
\* with the list exhausted or with a fault that left it, and the command
\* ends with it.  Until then every call of crawl() removes at least one date
\* range, so the batches drawn are never more than the date ranges removed,
\* which are never more than the original count; and no batch is attempted
\* more than max_retries times, one session for each attempt, so the
\* sessions are never more than original count times max_retries
C28_BatchesDrawn == r_batches + (IF c_pc \in {"safe_crawl", "returned", "raised"} THEN 1 ELSE 0)
C28_Bounded ==
    date_ranges_set =>
       /\ C28_BatchesDrawn <= original_dates_count - Len(date_ranges)
       /\ Len(date_ranges) >= 0
       /\ attempts_made <= max_retries
       /\ c_unclosed <= attempts_made
C28_Terminates ==
    /\ [](C28_Bounded)
    /\ [][(c_pc = "idle" /\ c_pc' = "safe_crawl") => Len(date_ranges') < Len(date_ranges)]_vars
    /\ (Len(date_ranges_arg) > 0) ~> (r_pc = "exit" /\ (r_fault = "" => (date_ranges_set /\ IterationDone)))

\* six date ranges were crawled in two batches, the second of which needed a
\* second attempt, and the command has ended without a fault
C28_Witness ==
    /\ r_pc = "exit"
    /\ r_fault = ""
    /\ original_dates_count = MaxRunRanges
    /\ r_batches = 2
    /\ attempt > 0
    /\ IterationDone

(***************************************************************************)
(* Concurrent upserts                                                      *)
(***************************************************************************)
\* C21: two processes upsert concurrently into a store whose update_one is
\* one step: whatever the interleaving, no document is stored twice, there
\* is at most one document for a natural key, it is the document of the
\* latest write of that key, and so one of the documents a process wrote
C21_LastWriterWins ==
    procs # <<>> =>
       /\ \A d \in DOMAIN store : store[d] <= 1
       /\ \A k \in ProcKeys :
             LET docs == {d \in Stored(store) : NaturalKey(d) = k}
             IN  /\ Cardinality(docs) <= 1
                 /\ docs = (IF last_write[k] = None THEN {} ELSE {last_write[k][1]})
                 /\ docs \subseteq UNION {procs[p].written : p \in Procs}

\* both processes have returned, both wrote the same natural key with
\* different values, and the document of process 1 is the one stored
C21_Witness ==
    /\ procs # <<>>
    /\ \A p \in Procs : procs[p].pc = "returned"
    /\ \E d1 \in procs[1].written, d2 \in procs[2].written :
          /\ NaturalKey(d1) = NaturalKey(d2)
          /\ d1.actual # d2.actual
          /\ store[d1] = 1
          /\ store[d2] = 0

====
